---- MODULE Spec2Model ----
(***************************************************************************)
(* Model of the indexing and retrieval pipeline of VirtualRAGModel:        *)
(*   populate_db.py  calculate_chunk_ids, add_to_chroma, clear_database    *)
(*   query_db.py     query_rag                                             *)
(*                                                                         *)
(* Strings are sequences of tokens, so that splitting, formatting and      *)
(* joining are computed rather than assumed.  The Chroma collection is a   *)
(* set of entries; the embedding and generation backends (Ollama) are      *)
(* inputs of each call: up or down, and what the generator answers.        *)
(***************************************************************************)
EXTENDS Integers, Sequences, FiniteSets, TLC

VARIABLES
    pc,             \* "idle": no script running; "start"/"done": see SpecIds;
                    \* "returned": a handler has returned, its locals are visible
    op,             \* the handler that ran last: "none", "add", "clear", "query", "ids"
    store,          \* the persisted Chroma collection: a set of entries
    ollama,         \* the backends as the last call found them: [embed, llm]
    chunks,         \* add_to_chroma / calculate_chunk_ids: the chunk list (mutated in place)
    existing_ids,   \* add_to_chroma: set(existing_items['ids'])
    new_chunk_ids,  \* add_to_chroma: the ids handed to db.add_documents
    outcome,        \* "none", "ok", or the exception that left the handler
    rerun,          \* TRUE when the last add_to_chroma repeated the input of the one before
    chunksB,        \* SpecIds: a second chunk list, a rearrangement of the first
    outcomeB,       \* SpecIds: outcome of calculate_chunk_ids on chunksB
    query_text,     \* query_rag: its argument
    results,        \* query_rag: the documents similarity_search_with_score returned, in rank order
    context_text,   \* query_rag: the joined context
    prompt,         \* query_rag: the rendered prompt
    invoked,        \* query_rag: the prompts model.invoke was called with, in order
    response_text,  \* query_rag: what model.invoke returned
    sources,        \* query_rag: the printed list of source ids
    retval          \* query_rag: the returned values, as a tuple (<<>>: an exception left the call)

vars == <<pc, op, store, ollama, chunks, existing_ids, new_chunk_ids, outcome, rerun,
          chunksB, outcomeB, query_text, results, context_text, prompt, invoked,
          response_text, sources, retval>>

(***************************************************************************)
(* Bounds of the model.                                                    *)
(***************************************************************************)
\* longest chunk list handed to calculate_chunk_ids / add_to_chroma
MaxChunks == 3

(***************************************************************************)
(* Program constants.                                                      *)
(***************************************************************************)
\* parsedSource[6]: the 0-based position of the source label in the split path
SourceIndex == 6
\* CHUNKS_TO_RETURN, read from configuration.env: k of the similarity search
CHUNKS_TO_RETURN == 3

(***************************************************************************)
(* Values.                                                                 *)
(***************************************************************************)
\* metadata.get("source") is None: the key is absent
NoSource == <<>>
\* metadata.get("page") is None: the key is absent
NoPage == -1
\* metadata has no 'id' yet
NoId == <<>>
\* last_page_id = None
NoPageId == <<>>

\* Windows paths, token by token; "\\" is the separator the code splits on
PathA == <<"C:", "\\", "Users", "\\", "me", "\\", "Documents", "\\", "RAG", "\\", "data", "\\", "docA.pdf">>
PathB == <<"C:", "\\", "Users", "\\", "me", "\\", "Documents", "\\", "RAG", "\\", "data", "\\", "docB.pdf">>
\* a path with fewer than seven components
ShortPath == <<"D:", "\\", "data", "\\", "docA.pdf">>

\* page_content values
TextA == <<"alpha">>
TextB == <<"beta", "gamma">>
TextC == <<"delta">>

Chunk(content, src, page) ==
    [page_content |-> content, source |-> src, page |-> page, id |-> NoId]

\* all sequences over S of length at most n
SeqsUpTo(S, n) == UNION {[1..k -> S] : k \in 0..n}

(***************************************************************************)
(* calculate_chunk_ids                                                     *)
(***************************************************************************)
\* str.split(sep) on a token sequence: the pieces between separators
RECURSIVE SplitFrom(_, _, _)
SplitFrom(s, sep, piece) ==
    IF s = <<>> THEN <<piece>>
    ELSE IF Head(s) = sep THEN <<piece>> \o SplitFrom(Tail(s), sep, <<>>)
    ELSE SplitFrom(Tail(s), sep, Append(piece, Head(s)))

Split(s, sep) == SplitFrom(s, sep, <<>>)

\* chunk.metadata.get("source").split("\\") for each path of the model, computed once
SplitPath == [s \in {PathA, PathB, ShortPath} |-> Split(s, "\\")]

\* how an f-string renders the page: an int in decimal, None as "None"
FormatPage(page) == IF page = NoPage THEN "None" ELSE ToString(page)

\* current_page_id = f"{source}:{page}"
PageId(source, page) == source \o <<":", FormatPage(page)>>

\* the index update without its else branch: the index is never reset
NextIndexAlwaysIncrement(current_page_id, last_page_id, current_chunk_index) ==
    current_chunk_index + 1

\* the if/else on current_page_id == last_page_id
NextIndex(current_page_id, last_page_id, current_chunk_index) ==
    IF current_page_id = last_page_id THEN current_chunk_index + 1 ELSE 0

\* chunk_id = f"{current_page_id}:{current_chunk_index}"
ChunkId(current_page_id, current_chunk_index) ==
    current_page_id \o <<":", ToString(current_chunk_index)>>

\* the for loop; an exception leaves the chunks before position i with their ids
RECURSIVE CalcLoop(_, _, _, _)
CalcLoop(cs, i, last_page_id, current_chunk_index) ==
    IF i > Len(cs) THEN [chunks |-> cs, raised |-> "none"]
    ELSE IF cs[i].source = NoSource THEN [chunks |-> cs, raised |-> "AttributeError"]
    ELSE LET parsedSource == SplitPath[cs[i].source] IN
         IF Len(parsedSource) < SourceIndex + 1 THEN [chunks |-> cs, raised |-> "IndexError"]
         ELSE LET source == parsedSource[SourceIndex + 1]
                  current_page_id == PageId(source, cs[i].page)
                  idx == NextIndex(current_page_id, last_page_id, current_chunk_index)
              IN  CalcLoop([cs EXCEPT ![i].id = ChunkId(current_page_id, idx)],
                           i + 1, current_page_id, idx)

calculate_chunk_ids(cs) == CalcLoop(cs, 1, NoPageId, 0)

(***************************************************************************)
(* The Chroma collection, as add_to_chroma uses it.                        *)
(***************************************************************************)
\* the entry that add_documents stores for a chunk under an id
Entry(id, chunk) ==
    [id |-> id, page_content |-> chunk.page_content,
     metadata |-> [source |-> chunk.source, page |-> chunk.page, id |-> chunk.id]]

\* the existing ids never read from the collection
ExistingIdsNone(db) == {}

\* set(db.get(include=[])['ids'])
ExistingIds(db) == {e.id : e \in db}

\* the membership test of the loop inverted
NewChunksKeepExisting(chunks_with_ids, ids) ==
    SelectSeq(chunks_with_ids, LAMBDA chunk : chunk.id \in ids)

\* the loop that keeps the chunks whose id is not in existing_ids
NewChunks(chunks_with_ids, ids) ==
    SelectSeq(chunks_with_ids, LAMBDA chunk : chunk.id \notin ids)

\* [chunk.metadata['id'] for chunk in new_chunks]
IdsOf(cs) == [i \in 1..Len(cs) |-> cs[i].id]

HasDuplicates(ids) == \E i, j \in 1..Len(ids) : i < j /\ ids[i] = ids[j]

\* the collection's upsert of one entry: the entry under that id is replaced
Upsert(db, e) == {x \in db : x.id # e.id} \cup {e}

RECURSIVE UpsertAll(_, _, _)
UpsertAll(db, docs, ids) ==
    IF docs = <<>> THEN db
    ELSE UpsertAll(Upsert(db, Entry(Head(ids), Head(docs))), Tail(docs), Tail(ids))

\* db.add_documents(new_chunks, ids=new_chunk_ids).  A batch that names an id
\* twice is either rejected whole (DuplicateIDError) or upserted in order, the
\* last entry winning: dupPolicy is the behaviour of the installed client.
add_documents(db, docs, ids, dupPolicy) ==
    IF HasDuplicates(ids) /\ dupPolicy = "reject"
    THEN [db |-> db, raised |-> "DuplicateIDError"]
    ELSE [db |-> UpsertAll(db, docs, ids), raised |-> "none"]

(***************************************************************************)
(* add_to_chroma and clear_database                                        *)
(***************************************************************************)
\* The whole of add_to_chroma on collection db: what it leaves in the
\* collection, its locals, and the exception that left it ("none": it returned).
add_to_chroma(db, cs, embedUp, dupPolicy) ==
    IF ~embedUp
    THEN \* get_embedding_func() raises RuntimeError before anything is read
         [db |-> db, chunks |-> cs, existing_ids |-> {}, new_chunk_ids |-> <<>>,
          raised |-> "RuntimeError"]
    ELSE LET calc == calculate_chunk_ids(cs) IN
         IF calc.raised # "none"
         THEN [db |-> db, chunks |-> calc.chunks, existing_ids |-> {},
               new_chunk_ids |-> <<>>, raised |-> calc.raised]
         ELSE LET ids == ExistingIds(db)
                  new_chunks == NewChunks(calc.chunks, ids)
              IN  IF Len(new_chunks) > 0
                  THEN LET added == add_documents(db, new_chunks, IdsOf(new_chunks), dupPolicy)
                       IN  [db |-> added.db, chunks |-> calc.chunks, existing_ids |-> ids,
                            new_chunk_ids |-> IdsOf(new_chunks), raised |-> added.raised]
                  ELSE [db |-> db, chunks |-> calc.chunks, existing_ids |-> ids,
                        new_chunk_ids |-> <<>>, raised |-> "none"]

\* shutil.rmtree(COLLECTION_PATH): nothing persisted is left
clear_database(db) == {}

\* the chunk list as the loader and splitter hand it over: no ids yet
Strip(cs) == [i \in 1..Len(cs) |-> [cs[i] EXCEPT !.id = NoId]]

Outcome(raised) == IF raised = "none" THEN "ok" ELSE raised

(***************************************************************************)
(* Inputs of the ingestion runs.                                           *)
(***************************************************************************)
\* chunks whose source parses, with and without a page
IngestSources == {PathA, PathB}
IngestPages == {0, NoPage}
IngestChunks == {Chunk(TextA, s, p) : s \in IngestSources, p \in IngestPages}
IngestInputs == SeqsUpTo(IngestChunks, MaxChunks)
\* chunk lists holding a chunk whose source is absent or too short a path
BadSources == {NoSource, ShortPath}
BadSourceInputs ==
    {cs \in SeqsUpTo({Chunk(TextA, s, 0) : s \in BadSources \cup {PathA}}, MaxChunks - 1) :
        \E i \in 1..Len(cs) : cs[i].source \in BadSources}
DupPolicies == {"reject", "upsert"}

\* the policies that can tell on a chunk list: one of them when no id repeats
PoliciesFor(cs) ==
    LET calc == calculate_chunk_ids(cs)
    IN  IF calc.raised = "none" /\ HasDuplicates(IdsOf(calc.chunks))
        THEN DupPolicies ELSE {"reject"}

idVars == <<chunksB, outcomeB>>
queryVars == <<query_text, results, context_text, prompt, invoked, response_text,
               sources, retval>>

NoQuery ==
    /\ query_text = <<>> /\ results = <<>> /\ context_text = <<>> /\ prompt = <<>>
    /\ invoked = <<>> /\ response_text = <<>> /\ sources = <<>> /\ retval = <<>>

Init ==
    /\ pc = "idle" /\ op = "none" /\ store = {}
    /\ ollama = [embed |-> TRUE, llm |-> TRUE]
    /\ chunks = <<>> /\ existing_ids = {} /\ new_chunk_ids = <<>>
    /\ outcome = "none" /\ rerun = FALSE
    /\ chunksB = <<>> /\ outcomeB = "none"
    /\ NoQuery

\* one run of add_to_chroma on cs against the persisted collection
RunAdd(cs, embedUp, dupPolicy, again) ==
    LET r == add_to_chroma(store, cs, embedUp, dupPolicy) IN
    /\ store' = r.db
    /\ chunks' = r.chunks
    /\ existing_ids' = r.existing_ids
    /\ new_chunk_ids' = r.new_chunk_ids
    /\ outcome' = Outcome(r.raised)
    /\ ollama' = [ollama EXCEPT !.embed = embedUp]
    /\ rerun' = again
    /\ op' = "add"
    /\ pc' = "returned"
    /\ UNCHANGED <<idVars, queryVars>>

\* populate_db.py run on some chunk list
Ingest ==
    /\ pc = "idle"
    /\ \E cs \in IngestInputs : \E dupPolicy \in PoliciesFor(cs) :
          RunAdd(cs, TRUE, dupPolicy, FALSE)

\* populate_db.py run on a chunk list with a source that cannot be parsed
IngestBadSource ==
    /\ pc = "idle"
    /\ \E cs \in BadSourceInputs : RunAdd(cs, TRUE, "reject", FALSE)

\* populate_db.py run while the embedding backend is down
IngestBackendDown ==
    /\ pc = "idle"
    /\ \E cs \in {<<>>, <<Chunk(TextA, PathA, 0)>>} : RunAdd(cs, FALSE, "reject", FALSE)

\* populate_db.py run again on the chunk list of the run before
Reingest ==
    /\ pc = "returned" /\ op = "add" /\ ~rerun
    /\ \E dupPolicy \in PoliciesFor(Strip(chunks)) :
          RunAdd(Strip(chunks), TRUE, dupPolicy, TRUE)

\* populate_db.py --reset, up to the call of clear_database
Reset ==
    /\ pc = "idle"
    /\ store' = clear_database(store)
    /\ op' = "clear"
    /\ pc' = "returned"
    /\ chunks' = <<>> /\ existing_ids' = {} /\ new_chunk_ids' = <<>>
    /\ outcome' = "ok" /\ rerun' = FALSE
    /\ UNCHANGED <<ollama, idVars, queryVars>>

\* the script ends: its locals are gone, the collection stays
Exit ==
    /\ pc = "returned"
    /\ pc' = "idle" /\ op' = "none"
    /\ chunks' = <<>> /\ existing_ids' = {} /\ new_chunk_ids' = <<>>
    /\ outcome' = "none" /\ rerun' = FALSE
    /\ query_text' = <<>> /\ results' = <<>> /\ context_text' = <<>> /\ prompt' = <<>>
    /\ invoked' = <<>> /\ response_text' = <<>> /\ sources' = <<>> /\ retval' = <<>>
    /\ ollama' = [embed |-> TRUE, llm |-> TRUE]
    /\ UNCHANGED <<store, idVars>>

Next == Ingest \/ IngestBadSource \/ IngestBackendDown \/ Reingest \/ Reset \/ Exit

Spec == Init /\ [][Next]_vars

(***************************************************************************)
(* query_rag                                                               *)
(***************************************************************************)
\* the separator of the context: "\n\n---\n\n"
Separator == <<"\n\n---\n\n">>

\* a join that puts the parts in reverse order
RECURSIVE JoinReversed(_, _)
JoinReversed(sep, parts) ==
    IF parts = <<>> THEN <<>>
    ELSE IF Len(parts) = 1 THEN parts[1]
    ELSE JoinReversed(sep, Tail(parts)) \o sep \o parts[1]

\* sep.join(parts)
RECURSIVE Join(_, _)
Join(sep, parts) ==
    IF parts = <<>> THEN <<>>
    ELSE IF Len(parts) = 1 THEN parts[1]
    ELSE parts[1] \o sep \o Join(sep, Tail(parts))

\* PROMPT_TEMPLATE, cut at its two placeholders
TemplateHead == <<"\nYou are a chatbot named Aero Space ... context provided\".:\n\n">>
TemplateMid == <<"\n\n---\n\nAnswer the questions as systems engineer would based on the above context: ">>
TemplateTail == <<"\n">>

\* ChatPromptTemplate.from_template(PROMPT_TEMPLATE).format(context=..., question=...):
\* the one human message, rendered as a string
FormatPrompt(context, question) ==
    <<"Human: ">> \o TemplateHead \o context \o TemplateMid \o question \o TemplateTail

\* [doc.page_content for doc, _score in results]
PageContents(ranked) == [i \in 1..Len(ranked) |-> ranked[i].page_content]

\* the source ids listed from the last result to the first
ResultSourcesReversed(ranked) ==
    [i \in 1..Len(ranked) |-> ranked[Len(ranked) + 1 - i].metadata.id]

\* [doc.metadata.get("id", None) for doc, _score in results]
ResultSources(ranked) == [i \in 1..Len(ranked) |-> ranked[i].metadata.id]

Min(a, b) == IF a < b THEN a ELSE b

\* what db.similarity_search_with_score(query_text, k) can return: the collection
\* ranks its entries as it sees fit and returns the first k, or all it holds
Rankings(db, k) ==
    {r \in [1..Min(k, Cardinality(db)) -> db] :
        \A i, j \in DOMAIN r : i # j => r[i] # r[j]}

\* query_rag with a branch of its own for an empty search result, which answers
\* without rendering the template or invoking the generator
query_rag_empty_branch(db, q, ranked, embedUp, llmUp, answer) ==
    LET none == [results |-> <<>>, context_text |-> <<>>, prompt |-> <<>>, invoked |-> <<>>,
                 response_text |-> <<>>, sources |-> <<>>, retval |-> <<>>]
    IN  IF ~embedUp THEN [none EXCEPT !.retval = <<>>] @@ [raised |-> "RuntimeError"]
        ELSE IF ranked = <<>>
        THEN [none EXCEPT !.response_text = <<"unsure">>, !.retval = <<<<"unsure">>>>]
             @@ [raised |-> "none"]
        ELSE LET context == Join(Separator, PageContents(ranked))
                 p == FormatPrompt(context, q)
                 sent == [none EXCEPT !.results = ranked, !.context_text = context,
                                      !.prompt = p, !.invoked = <<p>>]
             IN  IF ~llmUp THEN sent @@ [raised |-> "ConnectionError"]
                 ELSE [sent EXCEPT !.response_text = answer,
                                   !.sources = ResultSources(ranked),
                                   !.retval = <<answer>>] @@ [raised |-> "none"]

\* The whole of query_rag: its locals, what it returns, and the exception that
\* left it ("none": it returned).
query_rag(db, q, ranked, embedUp, llmUp, answer) ==
    LET none == [results |-> <<>>, context_text |-> <<>>, prompt |-> <<>>, invoked |-> <<>>,
                 response_text |-> <<>>, sources |-> <<>>, retval |-> <<>>]
    IN  IF ~embedUp
        THEN \* get_embedding_func() raises RuntimeError
             none @@ [raised |-> "RuntimeError"]
        ELSE LET context == Join(Separator, PageContents(ranked))
                 p == FormatPrompt(context, q)
                 sent == [none EXCEPT !.results = ranked, !.context_text = context,
                                      !.prompt = p, !.invoked = <<p>>]
             IN  IF ~llmUp
                 THEN \* model.invoke(prompt) raises
                      sent @@ [raised |-> "ConnectionError"]
                 ELSE [sent EXCEPT !.response_text = answer,
                                   !.sources = ResultSources(ranked),
                                   !.retval = <<answer>>] @@ [raised |-> "none"]

(***************************************************************************)
(* SpecQuery: a corpus is ingested into the empty collection, and queries  *)
(* run against whatever the collection holds.                              *)
(***************************************************************************)
CorpusChunks == {Chunk(t, s, 0) : t \in {TextA, TextB, TextC}, s \in {PathA, PathB}}
CorpusInputs == SeqsUpTo(CorpusChunks, MaxChunks)
Questions == {<<"what", "is", "lift">>, <<"drag">>}
Answers == {<<"answer", "one">>, <<"I", "was", "not", "able">>}

\* populate_db.py run on a corpus, the collection being empty
PopulateCorpus ==
    /\ pc = "idle" /\ store = {}
    /\ \E cs \in CorpusInputs : \E dupPolicy \in PoliciesFor(cs) :
          RunAdd(cs, TRUE, dupPolicy, FALSE)

RunQuery(q, ranked, embedUp, llmUp, answer) ==
    LET r == query_rag(store, q, ranked, embedUp, llmUp, answer) IN
    /\ query_text' = q
    /\ results' = r.results
    /\ context_text' = r.context_text
    /\ prompt' = r.prompt
    /\ invoked' = r.invoked
    /\ response_text' = r.response_text
    /\ sources' = r.sources
    /\ retval' = r.retval
    /\ outcome' = Outcome(r.raised)
    /\ ollama' = [embed |-> embedUp, llm |-> llmUp]
    /\ op' = "query"
    /\ pc' = "returned"
    /\ UNCHANGED <<store, chunks, existing_ids, new_chunk_ids, rerun, idVars>>

\* query_rag(query_text) with both backends up
Query ==
    /\ pc = "idle"
    /\ \E q \in Questions, ranked \in Rankings(store, CHUNKS_TO_RETURN), answer \in Answers :
          RunQuery(q, ranked, TRUE, TRUE, answer)

\* query_rag(query_text) with a backend down
QueryBackendDown ==
    /\ pc = "idle"
    /\ \E q \in Questions, ranked \in Rankings(store, CHUNKS_TO_RETURN) :
       \E up \in {<<FALSE, FALSE>>, <<FALSE, TRUE>>, <<TRUE, FALSE>>} :
          RunQuery(q, ranked, up[1], up[2], <<>>)

NextQuery == PopulateCorpus \/ Query \/ QueryBackendDown \/ Exit

SpecQuery == Init /\ [][NextQuery]_vars

(***************************************************************************)
(* SpecIds: calculate_chunk_ids alone, applied to a chunk list and to a    *)
(* rearrangement of it.                                                    *)
(***************************************************************************)
IdSources == {PathA, PathB, NoSource, ShortPath}
IdPages == {0, 1, NoPage}
IdChunks == {Chunk(TextA, s, p) : s \in IdSources, p \in IdPages}
IdInputs == SeqsUpTo(IdChunks, MaxChunks)

\* the chunk lists that hold the chunks of cs in another order
Rearrangements(cs) ==
    {[i \in 1..Len(cs) |-> cs[p[i]]] : p \in Permutations(1..Len(cs))}

InitIds ==
    /\ pc = "start" /\ op = "none" /\ store = {}
    /\ ollama = [embed |-> TRUE, llm |-> TRUE]
    /\ chunks \in IdInputs
    /\ chunksB \in Rearrangements(chunks)
    /\ existing_ids = {} /\ new_chunk_ids = <<>>
    /\ outcome = "none" /\ outcomeB = "none" /\ rerun = FALSE
    /\ NoQuery

\* calculate_chunk_ids(chunks) and calculate_chunk_ids(chunksB)
AssignIds ==
    /\ pc = "start"
    /\ LET a == calculate_chunk_ids(chunks)
           b == calculate_chunk_ids(chunksB)
       IN  /\ chunks' = a.chunks /\ outcome' = Outcome(a.raised)
           /\ chunksB' = b.chunks /\ outcomeB' = Outcome(b.raised)
    /\ pc' = "done" /\ op' = "ids"
    /\ UNCHANGED <<store, ollama, existing_ids, new_chunk_ids, rerun, queryVars>>

NextIds == AssignIds

SpecIds == InitIds /\ [][NextIds]_vars

(***************************************************************************)
(* Claims about calculate_chunk_ids (SpecIds).                             *)
(***************************************************************************)
\* a chunk whose metadata lacks the page or the source
Malformed(c) == c.page = NoPage \/ c.source = NoSource

WellFormed(cs) == \A i \in 1..Len(cs) : ~Malformed(cs[i])

\* the source label of a chunk as it stands in its id
Label(c) == SplitPath[c.source][SourceIndex + 1]

\* the sequence index an id ends with, read back from its decimal rendering
IdIndex(id) == CHOOSE n \in 0..(MaxChunks + 1) : ToString(n) = id[Len(id)]

SamePage(c, d) == Label(c) = Label(d) /\ c.page = d.page

\* the chunk at position i opens a run: it is the first chunk, or its
\* (source, page) differs from that of the chunk before it
OpensRun(cs, i) == i = 1 \/ ~SamePage(cs[i], cs[i - 1])

\* the chunks of cs that come from source src, in their order
OfSource(cs, src) == SelectSeq(cs, LAMBDA c : c.source = src)

\* C2: after calculate_chunk_ids has run over a chunk list, the sequence index in
\* each chunk's id is 0 exactly when the chunk is the first one or its (source, page)
\* differs from that of the chunk just before it, and is otherwise the index of the
\* chunk before it plus 1; the id reads "{source}:{page}:{sequence_index}".
C2_IndexResetsOnPageChange ==
    (pc = "done" /\ outcome = "ok") =>
        \A i \in 1..Len(chunks) :
            LET k == IdIndex(chunks[i].id) IN
            /\ (k = 0) <=> OpensRun(chunks, i)
            /\ ~OpensRun(chunks, i) => k = IdIndex(chunks[i - 1].id) + 1
            /\ chunks[i].id
                 = Label(chunks[i]) \o <<":", FormatPage(chunks[i].page), ":", ToString(k)>>

\* C2's case: a list of three chunks whose index goes up to 1 within a page and
\* falls back to 0 at the next page
C2_Witness ==
    /\ pc = "done" /\ outcome = "ok" /\ Len(chunks) = 3
    /\ IdIndex(chunks[2].id) = 1
    /\ IdIndex(chunks[3].id) = 0
    /\ chunks[3].page # NoPage /\ chunks[2].page # NoPage

\* C3: the sequence index of a chunk is its 0-based position among all chunks of
\* the list that share its source and page, contiguous or not, so that no two
\* chunks of one list receive the same id.  Stated for the lists whose chunks all
\* carry a source and a page.
C3_IndexCountsAllOfPage ==
    (pc = "done" /\ outcome = "ok" /\ WellFormed(chunks)) =>
        /\ \A i \in 1..Len(chunks) :
              IdIndex(chunks[i].id)
                = Cardinality({j \in 1..(i - 1) : SamePage(chunks[j], chunks[i])})
        /\ \A i, j \in 1..Len(chunks) : i # j => chunks[i].id # chunks[j].id

\* C6: when two chunk lists hold the chunks of a source X in the same relative
\* order and differ only in where the chunks of the other sources stand,
\* calculate_chunk_ids gives every chunk of X the same id in both.  Stated for
\* the lists whose chunks all carry a source and a page.
C6_IdsUnaffectedByOtherSources ==
    (pc = "done" /\ outcome = "ok" /\ outcomeB = "ok" /\ WellFormed(chunks)) =>
        \A src \in IdSources :
            OfSource(Strip(chunks), src) = OfSource(Strip(chunksB), src)
                => OfSource(chunks, src) = OfSource(chunksB, src)

(***************************************************************************)
(* Claims about add_to_chroma and clear_database (Spec).                   *)
(***************************************************************************)
IdSet(cs) == {cs[i].id : i \in 1..Len(cs)}

\* the positions of the chunks whose id the collection did not hold
NewPositions == {i \in 1..Len(chunks) : chunks[i].id \notin existing_ids}

\* C1: when add_to_chroma has returned after populating the collection from a
\* chunk list, running it again on the identical list hands no chunk to the
\* collection and leaves the stored entries as they were.
C1_ReingestAddsNothing ==
    [][(rerun' /\ outcome = "ok") => (new_chunk_ids' = <<>> /\ store' = store)]_vars

\* C1's case: a second run over a list of at least two chunks, all of whose ids
\* the first run had stored, has returned
C1_Witness ==
    /\ op = "add" /\ rerun /\ outcome = "ok"
    /\ Len(chunks) >= 2
    /\ ExistingIds(store) = IdSet(chunks)
    /\ new_chunk_ids = <<>>

\* C4: whatever ingestion runs and resets have happened, the collection holds at
\* most one entry per id, and no run hands the same id twice to the collection
\* (stated for the runs whose chunks all carry a source and a page).
C4_OneEntryPerIdAndNoIdSubmittedTwice ==
    /\ \A e, f \in store : e.id = f.id => e = f
    /\ WellFormed(chunks) => ~HasDuplicates(new_chunk_ids)

\* C5: when the collection holds the ids of a chunk set S and add_to_chroma runs on
\* a superset with exactly one chunk whose id is not among them, the run completes,
\* hands exactly that chunk to the collection, and the collection grows by exactly
\* that one entry; every chunk whose id was present is skipped.
C5_OneNewChunkAddsOneEntry ==
    (/\ op = "add"
     /\ \A i \in 1..Len(chunks) : chunks[i].id # NoId
     /\ existing_ids \subseteq IdSet(chunks)
     /\ Cardinality(NewPositions) = 1)
    => LET i == CHOOSE n \in NewPositions : TRUE IN
       /\ outcome = "ok"
       /\ new_chunk_ids = <<chunks[i].id>>
       /\ Entry(chunks[i].id, chunks[i]) \in store
       /\ ExistingIds(store) = existing_ids \cup {chunks[i].id}
       /\ Cardinality(store) = Cardinality(existing_ids) + 1

\* C5's case: the collection held two ids, and a run over three chunks added the third
C5_Witness ==
    /\ op = "add" /\ outcome = "ok" /\ Len(chunks) = 3
    /\ Cardinality(existing_ids) = 2
    /\ existing_ids \subseteq IdSet(chunks)
    /\ Len(new_chunk_ids) = 1
    /\ Cardinality(store) = 3

\* C7: a chunk without page (or source) metadata makes id assignment fail with
\* MalformedMetadataError: such a chunk is never given an id, and no entry made
\* from one is ever stored.
C7_MalformedMetadataFailsFast ==
    /\ (op = "add" /\ ollama.embed /\ \E i \in 1..Len(chunks) : Malformed(chunks[i]))
          => /\ outcome = "MalformedMetadataError"
             /\ \A i \in 1..Len(chunks) : Malformed(chunks[i]) => chunks[i].id = NoId
    /\ \A e \in store : e.metadata.page # NoPage /\ e.metadata.source # NoSource

(***************************************************************************)
(* Claims about query_rag (SpecQuery).                                     *)
(***************************************************************************)
\* where the text of result i starts in the context, counted from 0: after the
\* texts of the results ranked before it and a separator for each
RECURSIVE Offset(_, _)
Offset(ranked, i) ==
    IF i = 1 THEN 0
    ELSE Offset(ranked, i - 1) + Len(ranked[i - 1].page_content) + Len(Separator)

Slice(s, from, n) == SubSeq(s, from + 1, from + n)

\* C8: the context is the texts of the retrieved chunks in the order the search
\* returned them, each followed by the fixed separator except the last, and
\* that context stands in the prompt between the template's head and its tail.
C8_ContextKeepsRetrievalOrder ==
    (op = "query" /\ ollama.embed) =>
        LET n == Len(results) IN
        /\ \A i \in 1..n :
              /\ Slice(context_text, Offset(results, i), Len(results[i].page_content))
                    = results[i].page_content
              /\ i < n =>
                    Slice(context_text,
                          Offset(results, i) + Len(results[i].page_content),
                          Len(Separator)) = Separator
        /\ Len(context_text)
              = IF n = 0 THEN 0 ELSE Offset(results, n) + Len(results[n].page_content)
        /\ Slice(prompt, 1 + Len(TemplateHead), Len(context_text)) = context_text

\* C8's case: a query that retrieved three chunks with three different texts
C8_Witness ==
    /\ op = "query" /\ outcome = "ok" /\ Len(results) = 3
    /\ results[1].page_content = TextB
    /\ results[2].page_content = TextA
    /\ results[3].page_content = TextC

\* C9, as stated: the query returns to its caller both the generated answer and
\* the list of source ids taken from each result's metadata, in context order.
C9_ReturnsAnswerAndSources ==
    (op = "query" /\ outcome = "ok") =>
        /\ Len(retval) = 2
        /\ retval[1] = response_text
        /\ retval[2] = [i \in 1..Len(results) |-> results[i].metadata.id]

\* C9, amended: the query returns the generated answer alone; the list of source
\* ids, one per retrieved result and in the order of the context, is built and
\* printed, and is not part of what is returned.
C9_ReturnsAnswerPrintsSources ==
    (op = "query" /\ outcome = "ok") =>
        /\ retval = <<response_text>>
        /\ response_text \in Answers
        /\ Len(sources) = Len(results)
        /\ \A i \in 1..Len(results) : sources[i] = results[i].metadata.id

\* C9's case: a query that retrieved at least two chunks of different ids has returned
C9_Witness ==
    /\ op = "query" /\ outcome = "ok" /\ Len(results) >= 2
    /\ results[1].metadata.id # results[2].metadata.id
    /\ Len(retval) = 1

\* C10: with no entry in the collection and both backends up, query_rag goes the
\* same way as ever: the context is empty, the template is rendered around it, the
\* generator is invoked exactly once, with that prompt, and the call returns.
C10_EmptyStoreStillGenerates ==
    (op = "query" /\ store = {} /\ ollama.embed /\ ollama.llm) =>
        /\ outcome = "ok"
        /\ results = <<>>
        /\ context_text = <<>>
        /\ prompt = <<"Human: ">> \o TemplateHead \o TemplateMid \o query_text \o TemplateTail
        /\ invoked = <<prompt>>
        /\ retval = <<response_text>>

\* C10's case: a query against the empty collection has returned
C10_Witness ==
    /\ op = "query" /\ store = {} /\ outcome = "ok"
    /\ Len(invoked) = 1 /\ query_text # <<>>

====
